---- MODULE Spec2Model ----
(***************************************************************************)
(* bevy_nested_tooltips: the interaction state machine of the crate.       *)
(*                                                                         *)
(* Entities.  A text span is the pair <<c, i>>: span i of text container   *)
(* c.  Container 0 is the host's text node (the scene of the examples),    *)
(* container p > 0 is the TooltipTextNode of tooltip p.  A tooltip entity  *)
(* is named by its id p \in PanelIds.  Bevy never hands out the same       *)
(* Entity twice (index + generation); the model hands out the smallest id  *)
(* that nothing in the state still refers to, which is the same up to      *)
(* renaming.                                                               *)
(*                                                                         *)
(* Commands.  Every handler of the crate mutates the world through         *)
(* Commands, which Bevy applies after the handler has returned; all        *)
(* observers of one triggered event run on the same world before any of    *)
(* their commands is applied (observers run on a DeferredWorld).  A        *)
(* handler that decides on what it reads is therefore modelled in two      *)
(* halves: one reads the world and yields the commands, one applies them.  *)
(*                                                                         *)
(* Frames.  One step of the model is one frame of the App: at most one     *)
(* input (PreUpdate: a pointer motion or a press, with the observers it    *)
(* triggers), then the systems of Update.  update_settings runs when the   *)
(* configuration has changed, tooltip_links runs in every frame, and a     *)
(* frame in which time passes (Time::delta of one unit) has tick_timers    *)
(* act, before or after tooltip_links since the App orders neither.        *)
(* Timers hold the units that remain (0 = the component is absent).        *)
(* TextObservePlugin (text_observer.rs) is part of the App: term.rs and    *)
(* highlight.rs observe the events that only its system raises.            *)
(***************************************************************************)
EXTENDS Integers, Sequences, FiniteSets, TLC

\* ------------------------------------------------------------------ bounds
\* number of tooltip ids (tooltips alive at once plus ids still referred to)
MaxPanels == 3
\* observers of one kind that may watch one link (update_settings adds one
\* per run and never removes any)
MaxObs == 3
\* ActivationMethod::Hover { time }, in frames
HoverTime == 2
\* TooltipConfiguration::interaction_wait_for_time, in frames
WaitTime == 3

\* TooltipConfiguration::starting_z_index (Default)
StartZ == 3

PanelIds == 1..MaxPanels
Containers == 0..MaxPanels
SpanIdx == 1..3
Spans == {<<c, i>> : c \in Containers, i \in SpanIdx}
NoEnt == <<0, 0>>

Methods == {"Hover", "MiddleMouse"}
Buttons == {"Middle", "Primary"}

\* --------------------------------------------------------------- the state
VARIABLES
    scene,       \* which host scene and TooltipMap the App was built with
    ids,         \* how many tooltip ids there are to hand out (<= MaxPanels)
    cfg,         \* TooltipConfiguration: [method, changed]
    tooltips,    \* PanelIds -> Tooltip entity (DeadTooltip when despawned)
    linkTimer,   \* Spans -> remaining TooltipLinkTimer, 0 = none
    obsHover,    \* Spans -> number of NestedTooltipsHoverObserver pairs watching it
    obsMiddle,   \* Spans -> number of NestedTooltipsMiddleMouseObserver watching it
    ptr,         \* where the pointer is
    was,         \* WasHoveringText resource: [some, entity, container]
    highlighted, \* the Targets carrying TooltipHighlighting
    hostFirst,   \* tooltip_links_query yields the host text node before the tooltips'
    out          \* what the last frame raised: [acts, spawned, hover, exit]

vars == << scene, ids, cfg, tooltips, linkTimer, obsHover, obsMiddle, ptr, was,
           highlighted, hostFirst, out >>

\* ----------------------------------------------------------- scene content
Seg(k, s) == [kind |-> k, s |-> s]

Scenes == {"doc", "roots", "showcase", "siblings"}

\* TooltipMap ("missing" is a key of none)
MapKeys == {"tooltip", "recursive"}

Content(key) ==
    IF scene = "showcase"
    THEN IF key = "tooltip"
         THEN << Seg("String", "A way"), Seg("Term", "recursive"), Seg("Highlight", "sides") >>
         ELSE IF key = "recursive"
         THEN << Seg("Term", "recursive"), Seg("Term", "tooltip") >>
         ELSE << >>
    ELSE IF scene = "siblings"
    THEN IF key = "tooltip"
         THEN << Seg("Term", "recursive"), Seg("Term", "recursive") >>
         ELSE << >>
    ELSE IF key \in MapKeys THEN << Seg("Term", "recursive") >>
    ELSE << >>

\* The spans of the host text node carrying TooltipTermLink or
\* TooltipHighlightLink
HostSpans ==
    IF scene \in {"doc", "siblings"} THEN << Seg("Term", "tooltip") >>
    ELSE IF scene = "roots"
    THEN << Seg("Term", "tooltip"), Seg("Term", "recursive"), Seg("Term", "missing") >>
    ELSE << Seg("Term", "tooltip"), Seg("Highlight", "top") >>

\* Host nodes carrying TooltipHighlight(tag)
Targets == {"left", "right", "topbar"}
TargetTag(n) == IF n = "topbar" THEN "top" ELSE "sides"

DeadTooltip ==
    [live |-> FALSE, src |-> NoEnt, parent |-> 0, locked |-> FALSE,
     debounced |-> FALSE, wait |-> 0, z |-> 0, key |-> "", spans |-> << >>]

NoWas == [some |-> FALSE, entity |-> NoEnt, container |-> 0]
\* acts: the links Activate was raised for (TooltipLinkTimeElapsed or a
\* middle press reaching spawn_tooltip), spawned: TooltipSpawned, hover:
\* TextHoveredOver / TextHoveredOut, exit: the tooltip whose region the
\* pointer left
NoOut == [acts |-> << >>, spawned |-> << >>, hover |-> << >>, exit |-> 0]

\* ------------------------------------------------------------ span queries
Live(t) == {p \in PanelIds : t[p].live}

\* the text spans under text node c: those of the host carry
\* TooltipTermLink or TooltipHighlightLink, those of a tooltip are the ones
\* spawn_tooltip gave it
SpanSeq(t, c) ==
    IF c = 0
    THEN [i \in DOMAIN HostSpans |->
            [kind |-> HostSpans[i].kind, s |-> HostSpans[i].s, parent |-> 0]]
    ELSE IF t[c].live THEN t[c].spans ELSE << >>

SpanKind(t, e) == IF e[2] \in 1..Len(SpanSeq(t, e[1]))
                  THEN SpanSeq(t, e[1])[e[2]].kind ELSE "None"

SpanStr(t, e) == SpanSeq(t, e[1])[e[2]].s

\* TooltipTermLinkRecursive::parent_entity (0: a TooltipTermLink)
SpanParent(t, e) == SpanSeq(t, e[1])[e[2]].parent

\* the entities carrying TooltipTermLink or TooltipTermLinkRecursive
IsLink(t, e) == SpanKind(t, e) = "Term"

HasNested(t, p) == \E q \in PanelIds : t[q].live /\ t[q].parent = p

\* ---------------------------------------------------------------- pointer
\* Away: over no glyph rectangle and over no tooltip
Away == [kind |-> "away", id |-> 0, span |-> 0, host |-> 0]
\* no window, or Window::cursor_position is None
NoCursor == [kind |-> "none", id |-> 0, span |-> 0, host |-> 0]

\* span 0 of a tooltip is an area of it without a glyph rectangle; host: the
\* span of the host text node the tooltip covers there (0: none)
Locations(t) ==
    {Away, NoCursor}
    \cup {[kind |-> "host", id |-> 0, span |-> i, host |-> 0] : i \in 1..Len(HostSpans)}
    \cup UNION {{[kind |-> "panel", id |-> p, span |-> i, host |-> 0] :
                    i \in 0..Len(SpanSeq(t, p))} : p \in Live(t)}

\* position_tooltip puts a tooltip next to the cursor, over whatever the host
\* laid out there: the places where a span of a tooltip lies over a span of
\* the host text node
StackLocations(t) ==
    UNION {{[kind |-> "panel", id |-> p, span |-> i, host |-> h] :
               i \in 1..Len(SpanSeq(t, p)), h \in 1..Len(HostSpans)} : p \in Live(t)}

\* the span of the topmost node whose glyph rectangle holds the pointer
\* (NoEnt: none)
PtrSpan(loc) == IF loc.span > 0 THEN << loc.id, loc.span >> ELSE NoEnt

\* the span of text node c whose section rectangle holds the pointer,
\* whatever lies over it (NoEnt: none)
SpanAt(loc, c) ==
    IF c = 0
    THEN IF loc.kind = "host" THEN << 0, loc.span >>
         ELSE IF loc.host > 0 THEN << 0, loc.host >>
         ELSE NoEnt
    ELSE IF loc.kind = "panel" /\ loc.id = c /\ loc.span > 0 THEN << c, loc.span >>
    ELSE NoEnt

\* RelativeCursorPosition::cursor_over of tooltip p
CursorOver(loc, p) == loc.kind = "panel" /\ loc.id = p

\* ------------------------------------------------------------------ world
\* The world as a record, threaded through the handlers of one frame.  held:
\* the ids the commands still queued refer to; ok turns FALSE when a spawn
\* finds no tooltip id left (the frame is then outside the bounds of the
\* model and is not taken).
Cur ==
    [cfg |-> cfg, tooltips |-> tooltips, linkTimer |-> linkTimer,
     obsHover |-> obsHover, obsMiddle |-> obsMiddle, ptr |-> ptr, was |-> was,
     highlighted |-> highlighted, hostFirst |-> hostFirst,
     acts |-> << >>, spawned |-> << >>,
     hover |-> << >>, exit |-> 0, held |-> {}, ok |-> TRUE]

\* ids nothing refers to any more: not alive, not held by a queued command,
\* not named by a TooltipSpawned of this frame, not the container
\* WasHoveringText still names, not the tooltip of the link a live Tooltip
\* names as its source
FreeIds(w) ==
    {p \in 1..ids :
        /\ ~w.tooltips[p].live
        /\ p \notin w.held
        /\ \A i \in DOMAIN w.spawned : w.spawned[i] # p
        /\ ~(w.was.some /\ w.was.container = p)
        /\ \A q \in PanelIds : w.tooltips[q].live => w.tooltips[q].src[1] # p}

Min(S) == CHOOSE x \in S : \A y \in S : x <= y

\* EntityCommands::despawn / try_despawn of tooltip p.  The entity goes with
\* its ChildOf subtree (title, text node, spans and their timers; the
\* observers watching only them).  TooltipsNested is declared without
\* linked_spawn: the tooltips nested under p are not despawned, they lose
\* their TooltipsNestedOf.  The pointer stays where it is; what it then
\* rests on is what the tooltip covered.
Despawn(w, p) ==
    IF ~w.tooltips[p].live THEN w
    ELSE [w EXCEPT
            !.tooltips = [q \in PanelIds |->
                            IF q = p THEN DeadTooltip
                            ELSE IF @[q].parent = p THEN [@[q] EXCEPT !.parent = 0]
                            ELSE @[q]],
            !.linkTimer = [e \in Spans |-> IF e[1] = p THEN 0 ELSE @[e]],
            !.obsHover = [e \in Spans |-> IF e[1] = p THEN 0 ELSE @[e]],
            !.obsMiddle = [e \in Spans |-> IF e[1] = p THEN 0 ELSE @[e]],
            !.ptr = IF ~CursorOver(@, p) THEN @
                    ELSE IF @.host > 0
                    THEN [kind |-> "host", id |-> 0, span |-> @.host, host |-> 0]
                    ELSE Away]

RECURSIVE DespawnAll(_, _)
DespawnAll(w, S) ==
    IF S = {} THEN w
    ELSE LET p == Min(S) IN DespawnAll(Despawn(w, p), S \ {p})

\* ---------------------------------------------------------- spawn_tooltip
NoCommands ==
    [despawn |-> {}, spawn |-> FALSE, src |-> NoEnt, parent |-> 0, z |-> 0, key |-> ""]

\* "Prevent the same entity having two existing tooltips spawned"
ExistsFor(t, term) == \E p \in PanelIds : t[p].live /\ t[p].src = term

\* spawn_tooltip without its return on a key the TooltipMap has no entry for
SpawnTooltipAnyKey(t, term) ==
    IF ExistsFor(t, term) THEN NoCommands
    ELSE IF ~IsLink(t, term) THEN NoCommands
    ELSE LET nested == SpanParent(t, term)
             key == SpanStr(t, term)
             zindex == IF nested = 0 THEN StartZ ELSE Cardinality(Live(t)) + StartZ
         IN [despawn |-> IF nested = 0 THEN Live(t) ELSE {},
             spawn |-> TRUE,
             src |-> term, parent |-> nested, z |-> zindex, key |-> key]

\* spawn_tooltip without its return when the link has a live tooltip
SpawnTooltipNoExistingCheck(t, term) ==
    IF ~IsLink(t, term) THEN NoCommands
    ELSE LET nested == SpanParent(t, term)
             key == SpanStr(t, term)
             zindex == IF nested = 0 THEN StartZ ELSE Cardinality(Live(t)) + StartZ
         IN [despawn |-> IF nested = 0 THEN Live(t) ELSE {},
             spawn |-> key \in MapKeys,
             src |-> term, parent |-> nested, z |-> zindex, key |-> key]

\* spawn_tooltip giving every tooltip starting_z_index
SpawnTooltipFlatZ(t, term) ==
    IF ExistsFor(t, term) THEN NoCommands
    ELSE IF ~IsLink(t, term) THEN NoCommands
    ELSE LET nested == SpanParent(t, term)
             key == SpanStr(t, term)
         IN [despawn |-> IF nested = 0 THEN Live(t) ELSE {},
             spawn |-> key \in MapKeys,
             src |-> term, parent |-> nested, z |-> StartZ, key |-> key]

\* spawn_tooltip despawning the existing tooltips for a nested link too
SpawnTooltipAlwaysDespawns(t, term) ==
    IF ExistsFor(t, term) THEN NoCommands
    ELSE IF ~IsLink(t, term) THEN NoCommands
    ELSE LET nested == SpanParent(t, term)
             key == SpanStr(t, term)
             zindex == IF nested = 0 THEN StartZ ELSE Cardinality(Live(t)) + StartZ
         IN [despawn |-> Live(t),
             spawn |-> key \in MapKeys,
             src |-> term, parent |-> nested, z |-> zindex, key |-> key]

\* what one run of spawn_tooltip queues, reading the tooltips t
SpawnTooltipCommands(t, term) ==
    IF ExistsFor(t, term) THEN NoCommands
    ELSE IF ~IsLink(t, term) THEN NoCommands
    ELSE LET nested == SpanParent(t, term)
             key == SpanStr(t, term)
             zindex == IF nested = 0 THEN StartZ ELSE Cardinality(Live(t)) + StartZ
         IN [despawn |-> IF nested = 0 THEN Live(t) ELSE {},
             spawn |-> key \in MapKeys,
             src |-> term, parent |-> nested, z |-> zindex, key |-> key]

\* the on_insert hook of the link spans of a new tooltip: one observer set of
\* the method configured when the span is inserted
HookObservers(w, m, e, key) ==
    IF w.cfg.method = m /\ e[2] \in 1..Len(Content(key)) /\ Content(key)[e[2]].kind = "Term"
    THEN 1 ELSE 0

\* the children of spawn_tooltip with its links spawned without
\* parent_entity
SpawnSpansNoParent(content, id) ==
    [i \in DOMAIN content |->
        IF content[i].kind = "String"
        THEN [kind |-> "String", s |-> content[i].s, parent |-> 0]
        ELSE IF content[i].kind = "Term"
        THEN [kind |-> "Term", s |-> content[i].s, parent |-> 0]
        ELSE [kind |-> "Highlight", s |-> content[i].s, parent |-> 0]]

\* the children spawn_tooltip gives the text node of tooltip id, in the
\* order of the content: TooltipStringText, TooltipTermLinkRecursive with
\* the tooltip as parent_entity, TooltipHighlightLink
SpawnSpans(content, id) ==
    [i \in DOMAIN content |->
        IF content[i].kind = "String"
        THEN [kind |-> "String", s |-> content[i].s, parent |-> 0]
        ELSE IF content[i].kind = "Term"
        THEN [kind |-> "Term", s |-> content[i].s, parent |-> id]
        ELSE [kind |-> "Highlight", s |-> content[i].s, parent |-> 0]]

\* the spawn of spawn_tooltip without its trigger of TooltipSpawned
SpawnEntitySilent(w, c) ==
    IF FreeIds(w) = {} THEN [w EXCEPT !.ok = FALSE]
    ELSE LET id == Min(FreeIds(w))
             par == IF c.parent # 0 /\ w.tooltips[c.parent].live THEN c.parent ELSE 0
         IN [w EXCEPT
               !.tooltips[id] = [live |-> TRUE, src |-> c.src, parent |-> par,
                                 locked |-> FALSE, debounced |-> FALSE,
                                 wait |-> WaitTime, z |-> c.z, key |-> c.key,
                                 spans |-> SpawnSpans(Content(c.key), id)],
               !.linkTimer = [e \in Spans |-> IF e[1] = id THEN 0 ELSE @[e]],
               !.obsHover = [e \in Spans |->
                               IF e[1] = id THEN HookObservers(w, "Hover", e, c.key) ELSE @[e]],
               !.obsMiddle = [e \in Spans |->
                               IF e[1] = id THEN HookObservers(w, "MiddleMouse", e, c.key) ELSE @[e]]]

\* commands.spawn((design_node, Tooltip { entity }, TooltipWaitForHover, ..))
\* with its children, TooltipsNestedOf when nested, and TooltipSpawned
SpawnEntity(w, c) ==
    IF FreeIds(w) = {} THEN [w EXCEPT !.ok = FALSE]
    ELSE LET id == Min(FreeIds(w))
             par == IF c.parent # 0 /\ w.tooltips[c.parent].live THEN c.parent ELSE 0
         IN [w EXCEPT
               !.tooltips[id] = [live |-> TRUE, src |-> c.src, parent |-> par,
                                 locked |-> FALSE, debounced |-> FALSE,
                                 wait |-> WaitTime, z |-> c.z, key |-> c.key,
                                 spans |-> SpawnSpans(Content(c.key), id)],
               !.linkTimer = [e \in Spans |-> IF e[1] = id THEN 0 ELSE @[e]],
               !.obsHover = [e \in Spans |->
                               IF e[1] = id THEN HookObservers(w, "Hover", e, c.key) ELSE @[e]],
               !.obsMiddle = [e \in Spans |->
                               IF e[1] = id THEN HookObservers(w, "MiddleMouse", e, c.key) ELSE @[e]],
               !.spawned = Append(@, id)]

Apply(w, c) ==
    LET w1 == DespawnAll(w, c.despawn)
    IN IF c.spawn THEN SpawnEntity(w1, c) ELSE w1

RECURSIVE ApplyTimes(_, _, _)
ApplyTimes(w, c, n) == IF n = 0 THEN w ELSE ApplyTimes(Apply(w, c), c, n - 1)

\* n observers run spawn_tooltip(term) for one event: all of them read the
\* world as it is, then their commands are applied in turn
Activate(w, term, n) ==
    LET c == SpawnTooltipCommands(w.tooltips, term)
        w1 == [w EXCEPT !.acts = @ \o [i \in 1..n |-> term],
                        !.held = IF n > 1 THEN @ \cup c.despawn ELSE @]
        w2 == ApplyTimes(w1, c, n)
    IN [w2 EXCEPT !.held = w.held]

\* ------------------------------------------------------ pointer observers
\* hover_cancel_spawn
HoverCancelSpawn(w, e) == [w EXCEPT !.linkTimer[e] = 0]

\* hover_despawn without its test of TooltipLocked
HoverDespawnIgnoresLock(t, p, loc) ==
    IF HasNested(t, p) \/ ~t[p].debounced THEN {}
    ELSE IF CursorOver(loc, p) THEN {}
    ELSE {p}

\* hover_despawn with its test of cursor_over inverted
HoverDespawnWrongSide(t, p, loc) ==
    IF HasNested(t, p) \/ t[p].locked \/ ~t[p].debounced THEN {}
    ELSE IF ~CursorOver(loc, p) THEN {}
    ELSE {p}

\* the tooltips hover_despawn despawns on a Pointer<Out> that reaches p,
\* the pointer being at loc
HoverDespawn(t, p, loc) ==
    IF HasNested(t, p) \/ t[p].locked \/ ~t[p].debounced THEN {}
    ELSE IF CursorOver(loc, p) THEN {}
    ELSE {p}

\* hover_debounce without its removal of TooltipWaitForHover
HoverDebounceKeepsTimer(t, p, inner) ==
    IF t[p].debounced THEN t
    ELSE IF inner THEN [t EXCEPT ![p].debounced = TRUE]
    ELSE t

\* hover_debounce on a Pointer<Move> that reaches p; inner: whether
\* RelativeCursorPosition::normalized of p lies within the debounce bounds
HoverDebounce(t, p, inner) ==
    IF t[p].debounced THEN t
    ELSE IF inner THEN [t EXCEPT ![p].debounced = TRUE, ![p].wait = 0]
    ELSE t

\* toggle_lock without its test of the button
ToggleLockAnyButton(t, p, button) ==
    IF t[p].live THEN [t EXCEPT ![p].locked = ~@] ELSE t

\* toggle_lock
ToggleLock(t, p, button) ==
    IF button = "Middle" /\ t[p].live THEN [t EXCEPT ![p].locked = ~@] ELSE t

\* A pointer motion that ends at loc.  Picking raises Pointer<Out> on what
\* the pointer left (it bubbles to the tooltip that holds it) and
\* Pointer<Move> on what it is over now.  toLink: whether the host link the
\* pointer left is itself a picking target (a Text node), so that
\* Pointer<Out> reaches the observers watching it.  The links of a tooltip
\* are TextSpans, which picking never targets.
PointerMove(w, loc, inner, toLink) ==
    LET from == w.ptr
        w0 == IF toLink THEN HoverCancelSpawn(w, PtrSpan(from)) ELSE w
        gone == IF from.kind = "panel" THEN HoverDespawn(w.tooltips, from.id, loc) ELSE {}
        left == IF from.kind = "panel" /\ ~CursorOver(loc, from.id) THEN from.id ELSE 0
        w1 == DespawnAll([w0 EXCEPT !.ptr = loc, !.exit = left], gone)
    IN IF loc.kind = "panel"
       THEN [w1 EXCEPT !.tooltips = HoverDebounce(@, loc.id, inner)]
       ELSE w1

\* Pointer<Press> on host link e, a picking target: middle_mouse_spawn of
\* every middle-mouse observer watching e
PointerPressLink(w, e, button) ==
    IF w.obsMiddle[e] > 0 /\ button = "Middle"
    THEN Activate(w, e, w.obsMiddle[e])
    ELSE w

\* ------------------------------------------------- text hover (hit test)
Tagged(tag) == {n \in Targets : TargetTag(n) = tag}

\* hover_time_spawn, run by each hover observer watching the link
HoverTimeSpawn(w, e) ==
    IF w.cfg.method = "Hover" THEN [w EXCEPT !.linkTimer[e] = HoverTime] ELSE w

\* highlight_activate without its filter on the string of TooltipHighlight
HighlightActivateAll(h, tag) == h \cup Targets
\* highlight_deactivate without its filter on the string of TooltipHighlight
HighlightDeactivateAll(h, tag) == h \ Targets

\* highlight_activate / highlight_deactivate
HighlightActivate(h, tag) == h \cup Tagged(tag)
HighlightDeactivate(h, tag) == h \ Tagged(tag)

\* commands.trigger(TextHoveredOver { entity: e }) and its observers
TextHoveredOver(w, e) ==
    LET w1 == IF IsLink(w.tooltips, e) /\ w.obsHover[e] > 0 THEN HoverTimeSpawn(w, e) ELSE w
    IN [w1 EXCEPT
          !.highlighted = IF SpanKind(w.tooltips, e) = "Highlight"
                          THEN HighlightActivate(@, SpanStr(w.tooltips, e)) ELSE @,
          !.hover = Append(@, << "over", e >>)]

\* commands.trigger(TextHoveredOut { entity: e }) and its observers
TextHoveredOut(w, e) ==
    [w EXCEPT
       !.highlighted = IF SpanKind(w.tooltips, e) = "Highlight"
                       THEN HighlightDeactivate(@, SpanStr(w.tooltips, e)) ELSE @,
       !.hover = Append(@, << "out", e >>)]

\* the text nodes tooltip_links queries: they carry ToolTipListenTextSpan
\* because a link or highlight span was added below them
Listens(t, c) ==
    \E i \in 1..Len(SpanSeq(t, c)) : SpanSeq(t, c)[i].kind \in {"Term", "Highlight"}

\* the second half of tooltip_links: look for a hovered span.  The first
\* text node the query yields with the cursor over it and a section
\* rectangle holding it is taken, whatever lies over it.
SearchHovered(w) ==
    LET found == {c \in Containers :
                    SpanAt(w.ptr, c) # NoEnt /\ Listens(w.tooltips, c)}
        c == IF 0 \in found /\ (w.hostFirst \/ found = {0}) THEN 0
             ELSE Min(found \ {0})
        e == SpanAt(w.ptr, c)
    IN IF found = {} THEN w
       ELSE TextHoveredOver([w EXCEPT !.was = [some |-> TRUE, entity |-> e, container |-> c]], e)

\* tooltip_links searching for a hovered span again although the pointer is
\* still inside the span WasHoveringText names
TooltipLinksSearchAgain(w) ==
    IF w.was.some
    THEN IF ~Listens(w.tooltips, w.was.container)
         THEN [w EXCEPT !.was = NoWas]
         ELSE IF w.ptr.kind = "none"
         THEN TextHoveredOut([w EXCEPT !.was = NoWas], w.was.entity)
         ELSE IF SpanAt(w.ptr, w.was.container) # NoEnt
         THEN IF SpanAt(w.ptr, w.was.container) # w.was.entity
              THEN TextHoveredOut([w EXCEPT !.was = NoWas], w.was.entity)
              ELSE SearchHovered(w)
         ELSE SearchHovered(w)
    ELSE SearchHovered(w)

\* tooltip_links taking a lost cursor position for a pointer over nothing
TooltipLinksNoCursorSearch(w) ==
    IF w.was.some
    THEN IF ~Listens(w.tooltips, w.was.container)
         THEN [w EXCEPT !.was = NoWas]
         ELSE IF SpanAt(w.ptr, w.was.container) # NoEnt
         THEN IF SpanAt(w.ptr, w.was.container) # w.was.entity
              THEN TextHoveredOut([w EXCEPT !.was = NoWas], w.was.entity)
              ELSE w
         ELSE SearchHovered(w)
    ELSE SearchHovered(w)

\* tooltip_links
TooltipLinks(w) ==
    IF w.was.some
    THEN IF ~Listens(w.tooltips, w.was.container)
         THEN [w EXCEPT !.was = NoWas]
         ELSE IF w.ptr.kind = "none"
         THEN TextHoveredOut([w EXCEPT !.was = NoWas], w.was.entity)
         ELSE IF SpanAt(w.ptr, w.was.container) # NoEnt
         THEN IF SpanAt(w.ptr, w.was.container) # w.was.entity
              THEN TextHoveredOut([w EXCEPT !.was = NoWas], w.was.entity)
              ELSE w
         ELSE SearchHovered(w)
    ELSE SearchHovered(w)

\* ------------------------------------------------------------ tick_timers
\* the orders in which a query may yield the entities of S
RECURSIVE Orders(_)
Orders(S) ==
    IF S = {} THEN {<< >>}
    ELSE UNION {{<< x >> \o o : o \in Orders(S \ {x})} : x \in S}

\* the links whose TooltipLinkTimer finishes with the next tick
FinishingLinks(w) == {e \in Spans : w.linkTimer[e] = 1}

\* the commands of the first loop, applied: for each finished link timer
\* TooltipLinkTimeElapsed (spawn_time_done runs spawn_tooltip and its
\* commands follow at once), then the removal of the timer
RECURSIVE TimeElapsed(_, _)
TimeElapsed(w, order) ==
    IF order = << >> THEN w
    ELSE LET term == Head(order)
             w1 == Activate(w, term, 1)
         IN TimeElapsed([w1 EXCEPT !.linkTimer[term] = 0], Tail(order))

\* tick_timers taking a TooltipWaitForHover for finished one unit early
TickTimersEarly(w, order) ==
    LET due == SelectSeq(order, LAMBDA e : w.linkTimer[e] = 1)
        finished == {p \in PanelIds : w.tooltips[p].live /\ w.tooltips[p].wait \in {1, 2}}
        w0 == [w EXCEPT
                 !.linkTimer = [e \in Spans |-> IF @[e] > 1 THEN @[e] - 1 ELSE @[e]],
                 !.tooltips = [p \in PanelIds |->
                                 IF @[p].wait > 1 THEN [@[p] EXCEPT !.wait = @ - 1]
                                 ELSE @[p]],
                 !.held = finished \cup {due[i][1] : i \in 1..Len(due)}]
        w1 == TimeElapsed(w0, due)
        w2 == DespawnAll(w1, finished)
    IN [w2 EXCEPT !.held = w.held]

\* tick_timers with Time::delta of one unit; order: the order in which
\* links_query yields the links
TickTimers(w, order) ==
    LET due == SelectSeq(order, LAMBDA e : w.linkTimer[e] = 1)
        finished == {p \in PanelIds : w.tooltips[p].live /\ w.tooltips[p].wait = 1}
        w0 == [w EXCEPT
                 !.linkTimer = [e \in Spans |-> IF @[e] > 1 THEN @[e] - 1 ELSE @[e]],
                 !.tooltips = [p \in PanelIds |->
                                 IF @[p].wait > 1 THEN [@[p] EXCEPT !.wait = @ - 1]
                                 ELSE @[p]],
                 !.held = finished \cup {due[i][1] : i \in 1..Len(due)}]
        w1 == TimeElapsed(w0, due)
        w2 == DespawnAll(w1, finished)
    IN [w2 EXCEPT !.held = w.held]

\* -------------------------------------------------------- update_settings
\* update_settings.run_if(resource_changed::<TooltipConfiguration>): one more
\* observer of the configured method watching every link there is
UpdateSettings(w) ==
    IF ~w.cfg.changed THEN w
    ELSE [w EXCEPT
            !.cfg.changed = FALSE,
            !.obsHover = [e \in Spans |->
                            IF w.cfg.method = "Hover" /\ IsLink(w.tooltips, e)
                            THEN @[e] + 1 ELSE @[e]],
            !.obsMiddle = [e \in Spans |->
                            IF w.cfg.method = "MiddleMouse" /\ IsLink(w.tooltips, e)
                            THEN @[e] + 1 ELSE @[e]]]

\* the systems of Update in a frame in which no time passes
Update(w) == TooltipLinks(UpdateSettings(w))

\* ----------------------------------------------------------------- actions
\* the App after Startup, built for scene sc with one of the methods ms and
\* n tooltip ids: the on_insert hooks have given every host link one
\* observer set
InitAny(sc, ms, n) ==
    /\ scene = sc
    /\ ids = n
    /\ cfg \in [method : ms, changed : {TRUE}]
    /\ tooltips = [p \in PanelIds |-> DeadTooltip]
    /\ linkTimer = [e \in Spans |-> 0]
    /\ obsHover = [e \in Spans |->
                     IF cfg.method = "Hover" /\ IsLink(tooltips, e) THEN 1 ELSE 0]
    /\ obsMiddle = [e \in Spans |->
                     IF cfg.method = "MiddleMouse" /\ IsLink(tooltips, e) THEN 1 ELSE 0]
    /\ ptr = Away
    /\ was = NoWas
    /\ highlighted = {}
    /\ out = NoOut

\* where no tooltip lies over the host text the order of the query makes no
\* difference
InitWith(sc, ms, n) == InitAny(sc, ms, n) /\ hostFirst = FALSE

Init == InitWith("doc", Methods, MaxPanels - 1)

Commit(w) ==
    /\ w.ok
    /\ cfg' = w.cfg
    /\ tooltips' = w.tooltips
    /\ linkTimer' = w.linkTimer
    /\ obsHover' = w.obsHover
    /\ obsMiddle' = w.obsMiddle
    /\ ptr' = w.ptr
    /\ was' = w.was
    /\ highlighted' = w.highlighted
    /\ out' = [acts |-> w.acts, spawned |-> w.spawned, hover |-> w.hover, exit |-> w.exit]
    /\ UNCHANGED << scene, ids, hostFirst >>

\* a frame in which the pointer moves to loc
MovePointer(loc, inner, toLink) ==
    /\ loc \in Locations(tooltips) \cup StackLocations(tooltips)
    /\ loc # ptr \/ inner
    /\ inner => loc.kind = "panel" /\ ~tooltips[loc.id].debounced
    /\ toLink => /\ ptr.kind = "host"
                 /\ PtrSpan(ptr) # PtrSpan(loc)
                 /\ IsLink(tooltips, PtrSpan(ptr))
                 /\ obsHover[PtrSpan(ptr)] > 0
                 /\ linkTimer[PtrSpan(ptr)] > 0
    /\ Commit(Update(PointerMove(Cur, loc, inner, toLink)))

\* a frame with Pointer<Press> on tooltip p or a node of it; it bubbles to
\* the tooltip
PressPanel(p, button) ==
    /\ CursorOver(ptr, p)
    /\ Commit(Update([Cur EXCEPT !.tooltips = ToggleLock(@, p, button)]))

\* a frame with Pointer<Press> on host link e
PressLink(e, button) ==
    /\ e[1] = 0
    /\ IsLink(tooltips, e)
    /\ PtrSpan(ptr) = e
    /\ Commit(Update(PointerPressLink(Cur, e, button)))

\* a frame without input in which no time passes
Frame == Commit(Update(Cur))

\* the systems of Update in a frame in which one unit of time passes;
\* tooltip_links and tick_timers are not ordered against each other
TickFrame(w0, order, linksFirst) ==
    LET w == UpdateSettings(w0)
    IN IF linksFirst THEN TickTimers(TooltipLinks(w), order)
       ELSE TooltipLinks(TickTimers(w, order))

\* a frame without input in which one unit of time passes
Tick(order, linksFirst) ==
    /\ order \in Orders(FinishingLinks(Cur))
    /\ Commit(TickFrame(Cur, order, linksFirst))

\* the host writes TooltipConfiguration, activation_method becoming m
UpdateConfig(m) ==
    /\ ~cfg.changed
    /\ \A e \in Spans : IsLink(tooltips, e) =>
          IF m = "Hover" THEN obsHover[e] < MaxObs ELSE obsMiddle[e] < MaxObs
    /\ cfg' = [method |-> m, changed |-> TRUE]
    /\ out' = NoOut
    /\ UNCHANGED << scene, ids, tooltips, linkTimer, obsHover, obsMiddle, ptr, was,
                    highlighted, hostFirst >>

Next ==
    \/ \E loc \in Locations(tooltips), inner \in BOOLEAN, toLink \in BOOLEAN :
          MovePointer(loc, inner, toLink)
    \/ \E p \in PanelIds, b \in Buttons : PressPanel(p, b)
    \/ \E e \in Spans, b \in Buttons : PressLink(e, b)
    \/ Frame
    \/ \E order \in Orders(FinishingLinks(Cur)), linksFirst \in BOOLEAN :
          Tick(order, linksFirst)
    \/ \E m \in Methods : UpdateConfig(m)

Spec == Init /\ [][Next]_vars


\* the App with the activation method left as configured at startup
NextFixed ==
    \/ \E loc \in Locations(tooltips), inner \in BOOLEAN, toLink \in BOOLEAN :
          MovePointer(loc, inner, toLink)
    \/ \E p \in PanelIds, b \in Buttons : PressPanel(p, b)
    \/ \E e \in Spans, b \in Buttons : PressLink(e, b)
    \/ Frame
    \/ \E order \in Orders(FinishingLinks(Cur)), linksFirst \in BOOLEAN :
          Tick(order, linksFirst)

\* the same without presses: the pointer only moves, and never leaves the
\* window
NextPointer ==
    \/ \E loc \in Locations(tooltips) \ {NoCursor}, inner \in BOOLEAN, toLink \in BOOLEAN :
          MovePointer(loc, inner, toLink)
    \/ Frame
    \/ \E order \in Orders(FinishingLinks(Cur)), linksFirst \in BOOLEAN :
          Tick(order, linksFirst)

\* ActivationMethod::Hover (the Default), one host link, a tooltip and a
\* tooltip nested in it
InitHover == InitWith("doc", {"Hover"}, MaxPanels - 1)
SpecHover == InitHover /\ [][NextFixed]_vars

\* ActivationMethod::MiddleMouse, one host link
InitMiddle == InitWith("doc", {"MiddleMouse"}, MaxPanels - 1)
SpecMiddle == InitMiddle /\ [][NextFixed]_vars

\* ActivationMethod::Hover, three host links, one of them with a key of no
\* entry, one tooltip at a time
InitRoots == InitWith("roots", {"Hover"}, MaxPanels - 2)
SpecRoots == InitRoots /\ [][NextFixed]_vars

\* ActivationMethod::Hover, one host link, chains of three tooltips
InitChain == InitWith("doc", {"Hover"}, MaxPanels)
SpecChain == InitChain /\ [][NextPointer]_vars

\* ActivationMethod::Hover at startup and rewritten by the host while the
\* App runs, one host link, one tooltip at a time
InitSwitch == InitWith("doc", {"Hover"}, MaxPanels - 2)
SpecSwitch == InitSwitch /\ [][Next]_vars

\* ActivationMethod::Hover, a host link and a host highlight link, one
\* tooltip at a time whose text holds a link and a highlight link, three
\* TooltipHighlight nodes
InitShowcase == InitWith("showcase", {"Hover"}, MaxPanels - 2)
SpecShowcase == InitShowcase /\ [][NextFixed]_vars

\* -------------------------------------------------------------- properties
InSeq(s, x) == \E i \in DOMAIN s : s[i] = x
Count(s, x) == Cardinality({i \in DOMAIN s : s[i] = x})

\* the live tooltips without TooltipsNestedOf
Roots(t) == {p \in Live(t) : t[p].parent = 0}

\* tooltip p is alive before and after the step, as the same entity
Survives(p) == tooltips[p].live /\ tooltips'[p].live /\ ~InSeq(out'.spawned, p)
\* tooltip p was alive before the step and that entity is gone after it
Destroyed(p) == tooltips[p].live /\ ~Survives(p)

\* the tooltips the TooltipsNestedOf chain of q leads to
RECURSIVE Up(_, _, _)
Up(t, q, n) ==
    IF n = 0 \/ q = 0 \/ t[q].parent = 0 THEN {}
    ELSE {t[q].parent} \cup Up(t, t[q].parent, n - 1)

\* hover_despawn leaves p alone whatever the pointer does
Exempt(t, p) == HasNested(t, p) \/ t[p].locked \/ ~t[p].debounced

\* C1: in every reachable state no two live tooltips have the same source
\* link (Tooltip::entity).
C1_OnePanelPerLink ==
    \A p, q \in Live(tooltips) : p # q => tooltips[p].src # tooltips[q].src

\* C2: a frame in which Activate is raised for a root-level link that has
\* no live tooltip ends with exactly one live root tooltip, whose source is
\* that link, and with no tooltip left of those that were alive before.
C2_RootExclusive ==
    [][\A e \in Spans :
          (e[1] = 0 /\ ~ExistsFor(tooltips, e) /\ InSeq(out'.acts, e)) =>
             /\ \E p \in PanelIds : Roots(tooltips') = {p} /\ tooltips'[p].src = e
             /\ \A q \in PanelIds : ~Survives(q)]_vars

\* C3: when a tooltip is destroyed, every tooltip whose parent chain led to
\* it is destroyed in the same frame: no descendant survives.
C3_Cascade ==
    [][\A p, q \in PanelIds :
          (Destroyed(p) /\ tooltips[q].live /\ p \in Up(tooltips, q, MaxPanels))
             => ~Survives(q)]_vars

\* C4: in every reachable state at most one live tooltip has no parent.
C4_OneRoot == Cardinality(Roots(tooltips)) <= 1

\* C5: under the Hover method, a frame that raises hover-exit
\* (TextHoveredOut) for a link whose countdown is running leaves that link
\* without a timer.
C5_ExitCancels ==
    [][\A e \in Spans :
          (/\ cfg.method = "Hover"
           /\ IsLink(tooltips, e)
           /\ linkTimer[e] > 0
           /\ InSeq(out'.hover, << "out", e >>)) => linkTimer'[e] = 0]_vars


\* a frame in which time passes
TickStep == \E order \in Orders(FinishingLinks(Cur)), linksFirst \in BOOLEAN :
               Tick(order, linksFirst)

\* link e has been hovered since its TextHoveredOver and still is
Hovered(e) == was.some /\ was.entity = e /\ PtrSpan(ptr) = e

\* C6: under the Hover method, when the countdown of a hovered link with an
\* entry in the TooltipMap and no live tooltip expires, that tick raises
\* Activate for it exactly once, removes its timer and spawns exactly one
\* tooltip for it; and while the hover goes on with the timer gone, no frame
\* starts a timer on the link or raises Activate for it again.
C6_HoverActivatesOnce ==
    [][\A e \in Spans :
          /\ (/\ TickStep
              /\ cfg.method = "Hover"
              /\ IsLink(tooltips, e)
              /\ SpanStr(tooltips, e) \in MapKeys
              /\ ~ExistsFor(tooltips, e)
              /\ Hovered(e)
              /\ linkTimer[e] = 1)
             => /\ Count(out'.acts, e) = 1
                /\ linkTimer'[e] = 0
                /\ \E p \in PanelIds :
                      /\ {q \in Live(tooltips') : tooltips'[q].src = e} = {p}
                      /\ Count(out'.spawned, p) = 1
          /\ (/\ cfg.method = "Hover"
              /\ IsLink(tooltips, e)
              /\ Hovered(e)
              /\ linkTimer[e] = 0
              /\ ptr' = ptr)
             => /\ linkTimer'[e] = 0
                /\ ~InSeq(out'.acts, e)]_vars

\* C7: a frame that raises no Activate and in which the pointer leaves no
\* tooltip (so only the dismiss timers can despawn) destroys no locked
\* tooltip.
C7_LockedOutlivesTimer ==
    [][\A p \in PanelIds :
          (tooltips[p].live /\ tooltips[p].locked /\ out'.acts = << >> /\ out'.exit = 0)
             => Survives(p)]_vars

\* C8: the frame that unlocks a tooltip leaves it with a full dismiss delay
\* ahead: its TooltipWaitForHover holds the whole interaction_wait_for_time.
C8_UnlockRestartsDelay ==
    [][\A p \in PanelIds :
          (tooltips[p].locked /\ Survives(p) /\ ~tooltips'[p].locked)
             => tooltips'[p].wait = WaitTime]_vars

\* C9: a pointer motion that leaves the region of a tooltip that has a
\* nested tooltip, is locked or is not debounced despawns nothing: the
\* tooltips are as before, but for the debounce of the tooltip the pointer
\* moved onto, and no observer is gone.
C9_ExemptFromHoverExit ==
    [][(/\ ptr.kind = "panel"
        /\ out'.exit = ptr.id
        /\ Exempt(tooltips, ptr.id))
          => /\ \E inner \in BOOLEAN :
                   tooltips' = IF ptr'.kind = "panel"
                               THEN HoverDebounce(tooltips, ptr'.id, inner)
                               ELSE tooltips
             /\ obsHover' = obsHover
             /\ obsMiddle' = obsMiddle
             /\ ~CursorOver(ptr', ptr.id)]_vars

\* C9 happens: the pointer has left a locked, debounced tooltip without
\* nested tooltip, and the tooltip is still there.
C9_Witness ==
    \E p \in PanelIds :
       /\ out.exit = p
       /\ tooltips[p].live
       /\ tooltips[p].locked
       /\ tooltips[p].debounced
       /\ ~HasNested(tooltips, p)
       /\ ~CursorOver(ptr, p)

\* C10: a pointer motion that leaves the region of a tooltip that is
\* debounced, not locked and without nested tooltip despawns that tooltip,
\* and no other.
C10_HoverExitDespawns ==
    [][(/\ ptr.kind = "panel"
        /\ out'.exit = ptr.id
        /\ ~Exempt(tooltips, ptr.id))
          => /\ ~tooltips'[ptr.id].live
             /\ \A q \in PanelIds \ {ptr.id} : tooltips'[q].live = tooltips[q].live]_vars

\* C10 happens: the tooltip the pointer has just left is gone.
C10_Witness ==
    /\ out.exit # 0
    /\ ~tooltips[out.exit].live
    /\ out.acts = << >>

\* C11: a tooltip the pointer is not over and that is neither locked nor
\* debounced is spawned with the whole interaction_wait_for_time; a frame
\* in which no time passes leaves its TooltipWaitForHover as it is; a tick
\* that raises no Activate takes one unit off it and leaves the tooltip
\* alive while more than one unit remains, and despawns the tooltip when
\* the last unit goes.
C11_DismissAfterDelay ==
    [][/\ \A i \in DOMAIN out'.spawned :
             tooltips'[out'.spawned[i]].live =>
                tooltips'[out'.spawned[i]].wait = WaitTime
       /\ \A p \in PanelIds :
             (/\ tooltips[p].live
              /\ ~tooltips[p].locked
              /\ ~tooltips[p].debounced
              /\ ~CursorOver(ptr, p)
              /\ ~CursorOver(ptr', p)
              /\ out'.acts = << >>)
                => /\ tooltips[p].wait > 0
                   /\ IF TickStep
                      THEN IF tooltips[p].wait = 1 THEN Destroyed(p)
                           ELSE Survives(p) /\ tooltips'[p].wait = tooltips[p].wait - 1
                      ELSE Survives(p) /\ tooltips'[p].wait = tooltips[p].wait]_vars

\* C11 happens: a tooltip that was never hovered has one unit of its delay
\* left.
C11_Witness ==
    \E p \in PanelIds :
       /\ tooltips[p].live
       /\ tooltips[p].wait = 1
       /\ ~tooltips[p].locked
       /\ ~tooltips[p].debounced
       /\ ~CursorOver(ptr, p)
       /\ out.acts = << >>

\* C12: a tick that raises no Activate never despawns a tooltip on which the
\* pointer rests before and after it, wherever inside the tooltip that is.
C12_RestingNeverTimesOut ==
    [][\A p \in PanelIds :
          (/\ TickStep
           /\ tooltips[p].live
           /\ CursorOver(ptr, p)
           /\ out'.acts = << >>) => Survives(p)]_vars

\* C13: hover_debounce on a pointer move within the debounce bounds leaves
\* the tooltip debounced and without TooltipWaitForHover; a debounced tooltip
\* has no TooltipWaitForHover in any state, stays debounced as long as it is
\* alive, and is destroyed by no tick that raises no Activate.
C13_DebouncedForGood ==
    [][\A p \in PanelIds :
          /\ tooltips[p].live =>
                LET t == HoverDebounce(tooltips, p, TRUE)
                IN t[p].debounced /\ t[p].wait = 0
          /\ (tooltips[p].live /\ tooltips[p].debounced) => tooltips[p].wait = 0
          /\ (tooltips'[p].live /\ tooltips'[p].debounced) => tooltips'[p].wait = 0
          /\ (tooltips[p].debounced /\ Survives(p)) => tooltips'[p].debounced
          /\ (tooltips[p].debounced /\ TickStep /\ out'.acts = << >>) => Survives(p)]_vars

\* C13 happens: a debounced tooltip is alive and time has passed since the
\* pointer was put inside it.
C13_Witness ==
    \E p \in PanelIds :
       /\ tooltips[p].live
       /\ tooltips[p].debounced
       /\ CursorOver(ptr, p)
       /\ linkTimer[<< p, 1 >>] = 1

\* C14: when update_settings has run for ActivationMethod::MiddleMouse, no
\* link carries a TooltipLinkTimer, and a tick under MiddleMouse raises no
\* Activate.
C14_SwitchCancelsCountdown ==
    [][(cfg'.method = "MiddleMouse" /\ ~cfg'.changed)
          => /\ \A e \in Spans : linkTimer'[e] = 0
             /\ TickStep => out'.acts = << >>]_vars

\* C15: when update_settings has run for ActivationMethod::Hover, a middle
\* press on a link raises no Activate and spawns no tooltip.
C15_OldHandlersTornDown ==
    [][\A e \in Spans :
          (cfg.method = "Hover" /\ ~cfg.changed /\ PressLink(e, "Middle"))
             => out'.acts = << >> /\ out'.spawned = << >>]_vars

\* a frame with a middle press while the pointer is on link e: the press is
\* on the link itself or on the tooltip that holds it
MiddlePressOn(e) ==
    /\ IsLink(tooltips, e)
    /\ PtrSpan(ptr) = e
    /\ PressLink(e, "Middle") \/ (e[1] # 0 /\ PressPanel(e[1], "Middle"))

\* C16: when update_settings has run for the method configured, every link
\* there is answers to it: under MiddleMouse a middle press on the link
\* raises Activate for it in that frame; under Hover a TextHoveredOver of
\* the link starts its countdown, and the tick that ends the countdown of
\* the link still hovered raises Activate for it.
C16_LinksFollowPolicy ==
    [][\A e \in Spans :
          /\ (cfg.method = "MiddleMouse" /\ ~cfg.changed /\ MiddlePressOn(e))
                => InSeq(out'.acts, e)
          /\ (cfg.method = "Hover" /\ ~cfg.changed /\ InSeq(out'.hover, << "over", e >>)
              /\ IsLink(tooltips, e) /\ IsLink(tooltips', e))
                => linkTimer'[e] > 0 \/ InSeq(out'.acts, e)
          /\ (cfg.method = "Hover" /\ ~cfg.changed /\ TickStep /\ Hovered(e)
              /\ linkTimer[e] = 1)
                => InSeq(out'.acts, e)]_vars

\* C17: under MiddleMouse, a middle press while the pointer is on a link
\* inside a tooltip raises Activate for the link, starts no TooltipLinkTimer
\* and leaves the lock of the tooltip that holds the link as it was.
C17_LinkConsumesPress ==
    [][\A e \in Spans :
          (cfg.method = "MiddleMouse" /\ ~cfg.changed /\ e[1] # 0 /\ MiddlePressOn(e))
             => /\ InSeq(out'.acts, e)
                /\ \A f \in Spans : linkTimer[f] = 0 => linkTimer'[f] = 0
                /\ Survives(e[1]) => tooltips'[e[1]].locked = tooltips[e[1]].locked]_vars

\* C18: a frame with a middle press on a live tooltip flips TooltipLocked of
\* that tooltip and changes no other part of any tooltip, no observer and
\* not the pointer; a press with another button changes no tooltip; and
\* toggle_lock applied twice with the middle button gives back the tooltips
\* it started from.
C18_ToggleLock ==
    [][\A p \in PanelIds :
          /\ (tooltips[p].live /\ PressPanel(p, "Middle"))
                => /\ tooltips' = [tooltips EXCEPT ![p].locked = ~tooltips[p].locked]
                   /\ obsHover' = obsHover
                   /\ obsMiddle' = obsMiddle
                   /\ ptr' = ptr
          /\ (tooltips[p].live /\ PressPanel(p, "Primary")) => tooltips' = tooltips
          /\ tooltips[p].live =>
                ToggleLock(ToggleLock(tooltips, p, "Middle"), p, "Middle") = tooltips]_vars

\* C18 happens: a tooltip under the pointer has been locked by a press.
C18_Witness ==
    \E p \in PanelIds :
       /\ tooltips[p].live
       /\ tooltips[p].locked
       /\ CursorOver(ptr, p)
       /\ out = NoOut

\* C19: a frame that raises TextHoveredOver for a TooltipHighlightLink with
\* string T ends with TooltipHighlighting on every TooltipHighlight(T) node
\* and on the nodes that carried it before, and on no other node.
C19_HighlightEnter ==
    [][\A e \in Spans :
          (SpanKind(tooltips, e) = "Highlight" /\ InSeq(out'.hover, << "over", e >>))
             => highlighted' = highlighted \cup Tagged(SpanStr(tooltips, e))]_vars

\* C19 happens: the pointer is on a highlight link inside a tooltip and the
\* nodes of its string carry TooltipHighlighting.
C19_Witness ==
    /\ ptr.kind = "panel"
    /\ SpanKind(tooltips, PtrSpan(ptr)) = "Highlight"
    /\ InSeq(out.hover, << "over", PtrSpan(ptr) >>)
    /\ Tagged(SpanStr(tooltips, PtrSpan(ptr))) \subseteq highlighted

\* C20: a frame that raises TextHoveredOut for a TooltipHighlightLink with
\* string T ends with no TooltipHighlight(T) node carrying
\* TooltipHighlighting, the nodes of other strings being as before.
C20_HighlightExit ==
    [][\A e \in Spans :
          (SpanKind(tooltips, e) = "Highlight" /\ InSeq(out'.hover, << "out", e >>))
             => highlighted' = highlighted \ Tagged(SpanStr(tooltips, e))]_vars

\* C20 happens: TextHoveredOut was raised for a highlight link while a node
\* of another string carries TooltipHighlighting, and the nodes of its own
\* string carry none.
C20_Witness ==
    \E e \in Spans :
       /\ SpanKind(tooltips, e) = "Highlight"
       /\ InSeq(out.hover, << "out", e >>)
       /\ highlighted # {}
       /\ highlighted \cap Tagged(SpanStr(tooltips, e)) = {}

\* C21: a frame whose every Activate is for a link whose key the TooltipMap
\* has no entry for raises no TooltipSpawned and ends with no tooltip that
\* was not alive before.
C21_MissingKeyNoPanel ==
    [][(/\ out'.acts # << >>
        /\ \A i \in DOMAIN out'.acts :
              /\ IsLink(tooltips, out'.acts[i])
              /\ SpanStr(tooltips, out'.acts[i]) \notin MapKeys)
          => /\ out'.spawned = << >>
             /\ \A p \in PanelIds : tooltips'[p].live => Survives(p)]_vars

\* C21 happens: Activate was raised for the link with the key "missing" and
\* there is no tooltip.
C21_Witness ==
    /\ out.acts = << << 0, 3 >> >>
    /\ SpanStr(tooltips, << 0, 3 >>) \notin MapKeys
    /\ out.spawned = << >>
    /\ Live(tooltips) = {}

\* C22: a frame that raises Activate for a link inside live tooltip P, the
\* link having an entry in the TooltipMap and no live tooltip, ends with
\* exactly one live tooltip whose source is the link, spawned in that frame
\* and nested under P, and with P alive.
C22_NestedSpawn ==
    [][\A e \in Spans :
          (/\ e[1] # 0
           /\ IsLink(tooltips, e)
           /\ SpanStr(tooltips, e) \in MapKeys
           /\ ~ExistsFor(tooltips, e)
           /\ InSeq(out'.acts, e))
             => /\ Survives(e[1])
                /\ \E p \in PanelIds :
                      /\ {q \in Live(tooltips') : tooltips'[q].src = e} = {p}
                      /\ InSeq(out'.spawned, p)
                      /\ tooltips'[p].parent = e[1]]_vars

\* tooltip p is an entity the step spawned: it carries the whole
\* TooltipWaitForHover and is not the tooltip of the same link that carried
\* it before the step
Created(p) ==
    /\ tooltips'[p].live
    /\ tooltips'[p].wait = WaitTime
    /\ ~(/\ tooltips[p].live
         /\ tooltips[p].wait = WaitTime
         /\ tooltips[p].src = tooltips'[p].src)

\* C24: TooltipSpawned is raised exactly once for each tooltip a frame
\* creates and for nothing else (a tooltip it names that the frame did not
\* create and keep is one a later activation of the frame despawned again),
\* never more often than Activate was raised, and not at all when every
\* Activate of the frame is for a link whose tooltip lives through the frame,
\* for a key without an entry, or for a span that is no link.
C24_SpawnedOncePerPanel ==
    [][/\ \A p \in PanelIds :
            /\ Created(p) => Count(out'.spawned, p) = 1
            /\ Count(out'.spawned, p) <= 1
            /\ (InSeq(out'.spawned, p) /\ ~Created(p)) => ~tooltips'[p].live
       /\ Len(out'.spawned) <= Len(out'.acts)
       /\ (\A i \in DOMAIN out'.acts :
              \/ \E p \in PanelIds : Survives(p) /\ tooltips[p].src = out'.acts[i]
              \/ ~IsLink(tooltips, out'.acts[i])
              \/ SpanStr(tooltips, out'.acts[i]) \notin MapKeys)
            => out'.spawned = << >>]_vars

\* C24 happens: one frame raised Activate for the key without an entry and
\* for the link "tooltip"; one tooltip was created and TooltipSpawned names
\* it once.
C24_Witness ==
    /\ out.acts = << << 0, 3 >>, << 0, 1 >> >>
    /\ out.spawned = << 1 >>
    /\ Live(tooltips) = {1}
    /\ tooltips[1].src = << 0, 1 >>

\* C23: with the pointer over nothing and every live tooltip unlocked, time
\* does not stand still for the tooltips: the next frame in which time passes
\* despawns one of them or brings a TooltipWaitForHover or TooltipLinkTimer
\* nearer its end, so none stays alive for ever while the pointer stays away.
C23_AwayRemovesBoth ==
    (/\ ptr = Away
     /\ Live(tooltips) # {}
     /\ \A p \in Live(tooltips) : ~tooltips[p].locked)
       => \E order \in Orders(FinishingLinks(Cur)), linksFirst \in BOOLEAN :
             LET w == TickFrame(Cur, order, linksFirst)
             IN w.tooltips # tooltips \/ w.linkTimer # linkTimer

\* where the pointer is when tooltip_links runs in the step: a tick leaves
\* it where it was, any other frame ends with it where it was moved to
HitPtr == IF TickStep THEN ptr ELSE ptr'

\* C25: a frame that starts with a span in WasHoveringText, whose text node
\* is still there, and in which the pointer is not inside that span when
\* tooltip_links runs, raises TextHoveredOut for the span before any other
\* hover event and does not leave WasHoveringText naming the span.
C25_ExitWhenLeft ==
    [][(/\ was.some
        /\ was.container = 0 \/ Survives(was.container)
        /\ PtrSpan(HitPtr) # was.entity)
          => /\ out'.hover # << >>
             /\ out'.hover[1] = << "out", was.entity >>
             /\ ~(was'.some /\ was'.entity = was.entity)]_vars

\* C26: a frame that starts with a span in WasHoveringText, whose text node
\* is still there, and in which the pointer is inside that span when
\* tooltip_links runs, raises no TextHoveredOver and no TextHoveredOut and
\* leaves WasHoveringText as it is.
C26_HoverContinues ==
    [][(/\ was.some
        /\ was.container = 0 \/ Survives(was.container)
        /\ PtrSpan(HitPtr) = was.entity)
          => /\ out'.hover = << >>
             /\ was' = was]_vars

\* C26 happens: the pointer rests on the host link WasHoveringText names, a
\* frame has passed without a hover event and the countdown the one
\* TextHoveredOver started has moved on.
C26_Witness ==
    /\ was.some
    /\ was.entity = << 0, 1 >>
    /\ PtrSpan(ptr) = << 0, 1 >>
    /\ out.hover = << >>
    /\ linkTimer[<< 0, 1 >>] = HoverTime - 1

\* C27: a frame in which the cursor position is not available when
\* tooltip_links runs raises TextHoveredOut for the span WasHoveringText
\* names, and nothing else, and removes WasHoveringText, if the text node of
\* that span is still there; with no WasHoveringText it raises no hover
\* event and leaves none.
C27_NoCursor ==
    [][HitPtr.kind = "none"
          => /\ (was.some /\ (was.container = 0 \/ Survives(was.container)))
                  => /\ out'.hover = << << "out", was.entity >> >>
                     /\ was' = NoWas
             /\ ~was.some => out'.hover = << >> /\ was' = NoWas]_vars

\* C27 happens: the cursor position was lost while the host link was
\* hovered; TextHoveredOut was raised for it and WasHoveringText is gone.
C27_Witness ==
    /\ ptr = NoCursor
    /\ out.hover = << << "out", << 0, 1 >> >> >>
    /\ was = NoWas

\* pointer motions, also to the places where the tooltip lies over the host
\* link
NextOverlap ==
    \/ \E loc \in Locations(tooltips) \ {NoCursor}, inner \in BOOLEAN, toLink \in BOOLEAN :
          MovePointer(loc, inner, toLink)
    \/ \E loc \in StackLocations(tooltips), inner \in BOOLEAN, toLink \in BOOLEAN :
          MovePointer(loc, inner, toLink)
    \/ Frame
    \/ \E order \in Orders(FinishingLinks(Cur)), linksFirst \in BOOLEAN :
          Tick(order, linksFirst)

\* ActivationMethod::Hover, one host link and one tooltip that may lie over
\* it; the query yields the text nodes in either order
InitOverlap == InitAny("doc", {"Hover"}, MaxPanels - 2) /\ hostFirst \in BOOLEAN
SpecOverlap == InitOverlap /\ [][NextOverlap]_vars

\* C28: a frame in which, when tooltip_links runs, the pointer is inside a
\* span of a live tooltip that lies over a span of the host text node raises
\* no TextHoveredOver for the host span, and ends with WasHoveringText naming
\* the tooltip's span unless it raised a hover event for another span.
C28_PanelSpanFirst ==
    [][(/\ HitPtr \in StackLocations(tooltips)
        /\ Survives(HitPtr.id))
          => /\ ~InSeq(out'.hover, << "over", << 0, HitPtr.host >> >>)
             /\ out'.hover = << >> => was'.some /\ was'.entity = PtrSpan(HitPtr)]_vars

\* C29: in every reachable state a link that carries a TooltipLinkTimer is
\* the link the pointer has been hovering since its TextHoveredOver, and no
\* live tooltip has it as its source.
C29_TimerOnlyWhileHovered ==
    \A e \in Spans :
       linkTimer[e] > 0 => Hovered(e) /\ ~ExistsFor(tooltips, e)

\* C30: a frame whose every Activate is for a link that is the source of a
\* live tooltip (one the tick of that frame does not dismiss) raises no
\* TooltipSpawned and ends with the tooltips, their TooltipsNestedOf,
\* TooltipLocked, debounce and TooltipWaitForHover as the same frame leaves
\* them when no TooltipLinkTimer finishes: no tooltip is despawned or
\* spawned for the activation.
C30_ExistingIgnored ==
    [][(/\ out'.acts # << >>
        /\ \A i \in DOMAIN out'.acts :
              \E p \in PanelIds :
                 /\ tooltips[p].live
                 /\ tooltips[p].src = out'.acts[i]
                 /\ TickStep => tooltips[p].wait # 1)
          => /\ out'.spawned = << >>
             /\ tooltips' =
                  IF TickStep
                  THEN TickFrame([Cur EXCEPT !.linkTimer = [e \in Spans |-> 0]],
                                 << >>, TRUE).tooltips
                  ELSE tooltips]_vars

\* C30 happens: Activate was raised for the host link while its tooltip
\* was alive; the tooltip is still the only one and nothing was spawned.
C30_Witness ==
    /\ out.acts = << << 0, 1 >> >>
    /\ out.spawned = << >>
    /\ Live(tooltips) = {1}
    /\ tooltips[1].src = << 0, 1 >>

\* C31: every frame in which time passes ends as the frame does in which
\* tooltip_links has run, and its TextHoveredOver / TextHoveredOut have been
\* handled, before tick_timers advances the timers and raises
\* TooltipLinkTimeElapsed.
C31_FixedOrder ==
    [][TickStep => \E order \in Orders(FinishingLinks(Cur)) : Tick(order, TRUE)]_vars

\* C32: after a frame in which time passes and in which both the
\* TooltipLinkTimer of a link inside tooltip P and the TooltipWaitForHover of
\* P finish, no live tooltip has that link as its source.
C32_NoOrphanFromDyingPanel ==
    [][\A e \in Spans :
          (/\ TickStep
           /\ e[1] # 0
           /\ tooltips[e[1]].live
           /\ tooltips[e[1]].wait = 1
           /\ IsLink(tooltips, e)
           /\ linkTimer[e] = 1)
             => ~ExistsFor(tooltips', e)]_vars

\* C33: the tooltip a frame with one Activate spawns carries GlobalZIndex
\* starting_z_index when its link is in the host text, and starting_z_index
\* plus the number of tooltips alive when the Activate is handled when its
\* link is inside a tooltip.
C33_StackingIndex ==
    [][\A p \in PanelIds :
          (/\ Len(out'.acts) = 1
           /\ out'.spawned = << p >>
           /\ tooltips'[p].live)
             => tooltips'[p].z =
                   IF tooltips'[p].src[1] = 0 THEN StartZ
                   ELSE StartZ + Cardinality(Live(tooltips))]_vars

\* C33 happens: a tooltip was spawned from a link inside the one tooltip
\* alive and carries starting_z_index + 1.
C33_Witness ==
    \E p \in Live(tooltips) :
       /\ out.spawned = << p >>
       /\ tooltips[p].src[1] # 0
       /\ tooltips[p].parent = tooltips[p].src[1]
       /\ tooltips[p].z = StartZ + 1

\* C34: the spans of every live tooltip follow the content of its TooltipMap
\* entry one to one and in order: a String gives a TooltipStringText span
\* with its text, a Term a TooltipTermLinkRecursive with the term as
\* linked_string and the tooltip as parent_entity, a Highlight a
\* TooltipHighlightLink with its tag.
C34_SpansFollowContent ==
    \A p \in Live(tooltips) :
       LET content == Content(tooltips[p].key)
           spans == tooltips[p].spans
       IN /\ Len(spans) = Len(content)
          /\ \A i \in DOMAIN content :
                /\ spans[i].kind = content[i].kind
                /\ spans[i].s = content[i].s
                /\ content[i].kind = "Term" => spans[i].parent = p
                /\ content[i].kind # "Term" => spans[i].parent = 0

\* C34 happens: the tooltip of the entry "tooltip" was spawned with a plain
\* span, a link and a highlight link.
C34_Witness ==
    \E p \in Live(tooltips) :
       /\ out.spawned = << p >>
       /\ tooltips[p].key = "tooltip"
       /\ Len(tooltips[p].spans) = 3
       /\ tooltips[p].spans[1].kind = "String"
       /\ tooltips[p].spans[2] = [kind |-> "Term", s |-> "recursive", parent |-> p]
       /\ tooltips[p].spans[3] = [kind |-> "Highlight", s |-> "sides", parent |-> 0]

\* C35: a frame that starts and ends with activation_method MiddleMouse
\* gives no link a TooltipLinkTimer it did not carry before, and raises
\* Activate only if it is a middle press on a link.
C35_NoHoverActivation ==
    [][(cfg.method = "MiddleMouse" /\ cfg'.method = "MiddleMouse")
          => /\ \A e \in Spans : linkTimer'[e] > 0 => linkTimer[e] > 0
             /\ (\A e \in Spans : ~PressLink(e, "Middle")) => out'.acts = << >>]_vars

\* C36: a frame whose every Activate is for a link of the host text whose
\* key the TooltipMap has no entry for despawns no tooltip: every tooltip
\* alive before it, other than one whose TooltipWaitForHover finishes in the
\* frame, is alive after it.
C36_FailedRootKeepsPanels ==
    [][(/\ out'.acts # << >>
        /\ \A i \in DOMAIN out'.acts :
              /\ out'.acts[i][1] = 0
              /\ IsLink(tooltips, out'.acts[i])
              /\ SpanStr(tooltips, out'.acts[i]) \notin MapKeys)
          => \A p \in PanelIds :
                (tooltips[p].live /\ tooltips[p].wait # 1) => Survives(p)]_vars

\* C37: in every reachable state in which some node carries
\* TooltipHighlighting, the pointer is inside a span carrying
\* TooltipHighlightLink.
C37_HighlightOnlyWhileHovered ==
    highlighted # {}
       => /\ PtrSpan(ptr) # NoEnt
          /\ SpanKind(tooltips, PtrSpan(ptr)) = "Highlight"

\* C38: the tooltip a frame with one Activate spawns from a link inside a
\* tooltip carries a GlobalZIndex greater than that of every tooltip alive
\* when the Activate is handled, its parent among them.
C38_NestedOnTop ==
    [][\A p \in PanelIds :
          (/\ Len(out'.acts) = 1
           /\ out'.spawned = << p >>
           /\ tooltips'[p].live
           /\ tooltips'[p].src[1] # 0)
             => \A q \in Live(tooltips) : tooltips'[p].z > tooltips[q].z]_vars

\* ActivationMethod::Hover, one host link whose tooltip holds two links,
\* three tooltips, pointer motions only
InitSiblings == InitWith("siblings", {"Hover"}, MaxPanels)
SpecSiblings == InitSiblings /\ [][NextPointer]_vars

\* the tooltips as the step leaves them when no TooltipLinkTimer finishes
\* in it
WithoutActivate ==
    IF TickStep
    THEN TickFrame([Cur EXCEPT !.linkTimer = [e \in Spans |-> 0]], << >>, TRUE).tooltips
    ELSE tooltips

C40_OneHandlerSet ==
    ~cfg.changed
       => \A e \in Spans :
             IsLink(tooltips, e)
                => IF cfg.method = "Hover"
                   THEN obsHover[e] = 1 /\ obsMiddle[e] = 0
                   ELSE obsMiddle[e] = 1 /\ obsHover[e] = 0

====
